---------------------------- MODULE Spec2Model ----------------------------
(***************************************************************************)
(* A model of ecaplugin.py: the three session parsers (Ardour 2.x,         *)
(* Ardour 3.x, JACK Rack), the ecasound formatter and the top-level flow   *)
(* of the script.                                                          *)
(*                                                                         *)
(* Conventions.  A Python value that may be None is a sequence of length   *)
(* at most one (<<>> is None).  A text is a sequence of string pieces, in  *)
(* the order in which the code concatenates them; Flat gives the string.   *)
(* A raw attribute value that the code converts to a number is kept as a   *)
(* sequence of one-character strings, so that the conversion is computed.  *)
(***************************************************************************)
EXTENDS Integers, Sequences, FiniteSets, TLC

VARIABLES
    pc,            \* position of the run
    argv,          \* the namespace parser.parse_args() returned
    args,          \* the namespace after lines 305-310, copied into the formatter
    doc,           \* the parsed XML document (soup)
    input_format,  \* None, "ardour" or "jackrack"
    single_track,  \* the flag computed while sniffing the input
    session,       \* the tracks the session parser produced
    calls,         \* the parser and formatter operations invoked so far, in order
    stdout,        \* the texts printed
    exit_msg,      \* the message of sys.exit, if the run was terminated
    raised         \* the exception that escaped, if any

vars == <<pc, argv, args, doc, input_format, single_track, session, calls,
          stdout, exit_msg, raised>>

---------------------------------------------------------------------------
(* Bounds of the model *)

MaxPlugins == 2
MaxIndexLen == 2
MaxUnits == 3
MaxRoutes == 2

---------------------------------------------------------------------------
(* Generic helpers *)

None == <<>>
Some(x) == <<x>>

Range(s) == {s[k] : k \in 1..Len(s)}

SeqsUpTo(S, n) == UNION {[1..k -> S] : k \in 0..n}

RECURSIVE Flat(_)
Flat(text) == IF text = <<>> THEN "" ELSE Head(text) \o Flat(Tail(text))

\* separator.join(texts)
RECURSIVE Join(_, _)
Join(separator, texts) ==
    IF texts = <<>> THEN <<>>
    ELSE IF Len(texts) = 1 THEN Head(texts)
    ELSE Head(texts) \o <<separator>> \o Join(separator, Tail(texts))

\* character * n
RECURSIVE Repeat(_, _)
Repeat(c, n) == IF n <= 0 THEN "" ELSE c \o Repeat(c, n - 1)

---------------------------------------------------------------------------
(* Numeric conversions of raw strings: int(), float(), str() *)

DigitVal(c) ==
    CASE c = "0" -> 0 [] c = "1" -> 1 [] c = "2" -> 2 [] c = "3" -> 3
      [] c = "4" -> 4 [] c = "5" -> 5 [] c = "6" -> 6 [] c = "7" -> 7
      [] c = "8" -> 8 [] c = "9" -> 9

RECURSIVE NatOfDigits(_, _)
NatOfDigits(ds, acc) ==
    IF ds = <<>> THEN acc ELSE NatOfDigits(Tail(ds), 10 * acc + DigitVal(Head(ds)))

\* int(s) of an optionally signed run of decimal digits
int_of_str(s) ==
    IF s # <<>> /\ Head(s) = "-" THEN 0 - NatOfDigits(Tail(s), 0)
    ELSE NatOfDigits(s, 0)

RECURSIVE StripZeros(_)
StripZeros(ds) ==
    IF ds # <<>> /\ ds[Len(ds)] = "0" THEN StripZeros(SubSeq(ds, 1, Len(ds) - 1))
    ELSE ds

\* float(s) of a decimal literal [-]digits[.digits]: sign, integer part and
\* the fractional digits without trailing zeros
float_of_str(s) ==
    LET neg  == s # <<>> /\ Head(s) = "-"
        body == IF neg THEN Tail(s) ELSE s
        dots == {k \in 1..Len(body) : body[k] = "."}
        dot  == IF dots = {} THEN Len(body) + 1 ELSE CHOOSE k \in dots : TRUE
    IN [neg  |-> neg,
        ip   |-> NatOfDigits(SubSeq(body, 1, dot - 1), 0),
        frac |-> StripZeros(SubSeq(body, dot + 1, Len(body)))]

\* int(f): truncation towards zero
int_of_float(f) == IF f.neg THEN 0 - f.ip ELSE f.ip

\* float(n)
float_of_int(n) == [neg |-> n < 0, ip |-> IF n < 0 THEN 0 - n ELSE n, frac |-> <<>>]

\* f == g on floats (-0.0 == 0.0)
float_eq(f, g) ==
    /\ f.ip = g.ip
    /\ f.frac = g.frac
    /\ (f.neg = g.neg \/ (f.ip = 0 /\ f.frac = <<>>))

\* str(f): the shortest representation that reads back as f
str_of_float(f) ==
    (IF f.neg THEN "-" ELSE "") \o ToString(f.ip) \o "."
        \o (IF f.frac = <<>> THEN "0" ELSE Flat(f.frac))

format_value(value) ==
    LET floating == float_of_str(value)
        integer  == int_of_float(float_of_str(value))
    IN IF float_eq(float_of_int(integer), floating)
       THEN ToString(integer)
       ELSE str_of_float(floating)

---------------------------------------------------------------------------
(* Plugin and track descriptors *)

LadspaPlugin(unique_id, values, enabled, name) ==
    [kind |-> "ladspa", name |-> name, enabled |-> enabled,
     unique_id |-> unique_id, uri |-> "", values |-> values]

LV2Plugin(uri, values, enabled, name) ==
    [kind |-> "lv2", name |-> name, enabled |-> enabled,
     unique_id |-> 0, uri |-> uri, values |-> values]

Track(plugins, nchannels, samplerate, name) ==
    [plugins |-> plugins, nchannels |-> nchannels, samplerate |-> samplerate,
     name |-> name]

\* ','.join(format_value(v) for v in self.values)
join_values(values) == Join(",", [k \in 1..Len(values) |-> <<format_value(values[k])>>])

format_cmdline(plugin) ==
    IF plugin.kind = "ladspa"
    THEN <<"-eli:", ToString(plugin.unique_id), ",">> \o join_values(plugin.values)
    ELSE <<"-elv2:", plugin.uri, ",">> \o join_values(plugin.values)

---------------------------------------------------------------------------
(* EcasoundOutput *)

\* The outcome of a formatter operation: the text it returns, or the
\* sys.exit message that terminated the run, with the locals of format_track.
Returned(indices, plugins, string, result) ==
    [exit |-> None, indices |-> indices, plugins |-> plugins,
     string |-> string, result |-> result]

Exited(msg) ==
    [exit |-> Some(msg), indices |-> <<>>, plugins |-> <<>>,
     string |-> <<>>, result |-> <<>>]

format_plugin(self, index, plugin) ==
    LET description ==
            IF ~self.no_description
            THEN <<"# ", ToString(index), ": ",
                   (IF plugin.name # None /\ plugin.name[1] # "" THEN plugin.name[1] ELSE ""),
                   "\n">>
            ELSE <<>>
        comment == IF ~plugin.enabled THEN <<"# ">> ELSE <<>>
    IN description \o comment \o format_cmdline(plugin)

\* bad_indices with the exclude list left unchecked
bad_indices_include_only(self, track) ==
    {k \in 1..Len(self.include_indices) :
        self.include_indices[k] < 0 \/ self.include_indices[k] >= Len(track.plugins)}

\* lines 222-224: the first index of include_indices + exclude_indices that
\* is out of range, if any
bad_indices(self, track) ==
    LET all == self.include_indices \o self.exclude_indices
    IN {k \in 1..Len(all) : all[k] < 0 \/ all[k] >= Len(track.plugins)}

\* effective_indices with the include list never taken
effective_indices_ignore_include(self, track) ==
    SelectSeq([k \in 1..Len(track.plugins) |-> k - 1],
              LAMBDA i : i \notin Range(self.exclude_indices))

\* lines 225-229
effective_indices(self, track) ==
    IF self.include_indices # <<>>
    THEN self.include_indices
    ELSE LET F[n \in 0..Len(track.plugins)] ==
                 IF n = 0 THEN <<>>
                 ELSE IF (n - 1) \in Range(self.exclude_indices)
                      THEN F[n - 1]
                      ELSE Append(F[n - 1], n - 1)
         IN F[Len(track.plugins)]

\* track.plugins[i], with Python's wrap-around of a negative index
py_index(plugins, i) ==
    IF i < 0 THEN plugins[Len(plugins) + i + 1] ELSE plugins[i + 1]

\* selected_plugins without the test of line 235
selected_plugins_unfiltered(self, track, indices) ==
    [k \in 1..Len(indices) |-> <<indices[k], py_index(track.plugins, indices[k])>>]

\* lines 231-236
selected_plugins(self, track, indices) ==
    SelectSeq([k \in 1..Len(indices) |-> <<indices[k], py_index(track.plugins, indices[k])>>],
                 LAMBDA ip : ip[2].enabled \/ self.include_disabled)

\* line 238
separator(self) == IF self.single_line THEN " " ELSE "\n"

\* chain_setup_wrap with channel count and sample rate in each other's place
chain_setup_wrap_swapped(self, track, string) ==
    IF self.chain_setup
    THEN <<"-f:f32,", ToString(track.samplerate), ",", ToString(track.nchannels),
           " -G:jack,", self.client_name, ",notransport -i:jack -o:jack\n\n">> \o string
    ELSE string

\* lines 241-249
chain_setup_wrap(self, track, string) ==
    IF self.chain_setup
    THEN <<"-f:f32,", ToString(track.nchannels), ",", ToString(track.samplerate),
           " -G:jack,", self.client_name, ",notransport -i:jack -o:jack\n\n">> \o string
    ELSE string

format_track(self, track) ==
    LET all  == self.include_indices \o self.exclude_indices
        bad  == bad_indices(self, track)
    IN IF bad # {}
       THEN LET first == CHOOSE k \in bad : \A j \in bad : k <= j
            IN Exited("error: plugin index " \o ToString(all[first]) \o " is out of range")
       ELSE LET indices == effective_indices(self, track)
                plugins == selected_plugins(self, track, indices)
                string  == Join(separator(self),
                                [k \in 1..Len(plugins) |->
                                    format_plugin(self, plugins[k][1], plugins[k][2])])
            IN Returned(indices, plugins, string, chain_setup_wrap(self, track, string))

\* '%s:\n%s\n%s' % (track.name, '-' * (len(track.name) + 1), self.format_track(track))
session_entry(track, text) ==
    <<track.name[1], ":\n", Repeat("-", Len(track.name[1]) + 1), "\n">> \o text

\* format_session: the outcome of each format_track call it makes, in order,
\* up to the first one that terminates the run
RECURSIVE session_calls(_, _)
session_calls(self, tracks) ==
    IF tracks = <<>> THEN <<>>
    ELSE LET r == format_track(self, Head(tracks))
         IN IF r.exit # None THEN <<r>>
            ELSE <<r>> \o session_calls(self, Tail(tracks))

format_session(self, tracks) ==
    LET rs == session_calls(self, tracks)
    IN IF rs # <<>> /\ rs[Len(rs)].exit # None
       THEN Exited(rs[Len(rs)].exit[1])
       ELSE Returned(<<>>, <<>>, <<>>,
                     Join("\n\n", [k \in 1..Len(tracks) |->
                                      session_entry(tracks[k], rs[k].result)]))

---------------------------------------------------------------------------
(* Session parsers *)

\* The outcome of a parser operation: its value, or the exception that the
\* attribute/tree access raised and nobody catches.
Value(v) == [raised |-> None, value |-> v]
Raise(exc) == [raised |-> Some(exc), value |-> <<>>]

\* s.count(c)
count_char(s, c) == Cardinality({k \in 1..Len(s) : s[k] = c})

\* [p['value'] for p in ....find_all('port')]
port_values(unit) == unit.values

\* Ardour2Session.parse_ladspa / parse_lv2
Ardour2_parse_ladspa(insert) ==
    LadspaPlugin(int_of_str(insert.unique_id), port_values(insert),
                 insert.redirect[1].active = "yes", Some(insert.redirect[1].name))

Ardour2_parse_lv2(insert) ==
    LV2Plugin(Flat(insert.unique_id), port_values(insert),
              insert.redirect[1].active = "yes", Some(insert.redirect[1].name))

\* line 103: insert.Redirect['placement'] == 'PostFader'
placement_lookup(insert) ==
    IF insert.redirect = None THEN Raise("TypeError")
    ELSE IF insert.redirect[1].placement = None THEN Raise("KeyError")
    ELSE Value(insert.redirect[1].placement[1] = "PostFader")

\* line 110: (post_fader if is_post_fader else pre_fader).append(plugin)
Ardour2_place(lists, is_post_fader, plugin) ==
    IF is_post_fader THEN <<lists[1], Append(lists[2], plugin)>>
    ELSE <<Append(lists[1], plugin), lists[2]>>

\* lines 102-110: one iteration of the loop, on <<pre_fader, post_fader>>
Ardour2_step(lists, insert) ==
    LET type == insert.type
        is_post_fader == placement_lookup(insert)
    IN IF is_post_fader.raised # None THEN Raise(is_post_fader.raised[1])
       ELSE IF type = "ladspa"
       THEN Value(Ardour2_place(lists, is_post_fader.value, Ardour2_parse_ladspa(insert)))
       ELSE IF type = "lv2"
       THEN Value(Ardour2_place(lists, is_post_fader.value, Ardour2_parse_lv2(insert)))
       ELSE Value(lists)

\* lines 99-110: the loop over route.find_all('Insert')
RECURSIVE Ardour2_scan(_, _)
Ardour2_scan(inserts, lists) ==
    IF inserts = <<>> THEN Value(lists)
    ELSE LET r == Ardour2_step(lists, Head(inserts))
         IN IF r.raised # None THEN r
            ELSE Ardour2_scan(Tail(inserts), r.value)

\* Ardour2_order with the two lists swapped
Ardour2_order_post_first(lists) == lists[2] \o lists[1]

\* line 113: pre_fader + post_fader
Ardour2_order(lists) == lists[1] \o lists[2]

\* lines 89-93
Ardour2_nchannels(route) ==
    IF route.input_connection # None
    THEN (IF count_char(route.input_connection[1], "+") > 0 THEN 2 ELSE 1)
    ELSE count_char(route.inputs, "{")

Ardour2_parse_route(soup, route) ==
    LET nchannels  == Ardour2_nchannels(route)
        samplerate == int_of_str(soup.sample_rate)
        name       == route.name
        scan       == Ardour2_scan(route.units, <<<<>>, <<>>>>)
    IN IF scan.raised # None THEN Raise(scan.raised[1])
       ELSE Value(Track(Ardour2_order(scan.value), nchannels, samplerate, Some(name)))

\* Ardour3Session.parse_ladspa / parse_lv2
Ardour3_parse_ladspa(processor) ==
    LadspaPlugin(int_of_str(processor.unique_id), port_values(processor),
                 processor.active = "yes", Some(processor.name))

Ardour3_parse_lv2(processor) ==
    LV2Plugin(Flat(processor.unique_id), port_values(processor),
              processor.active = "yes", Some(processor.name))

\* Ardour3_step with the final else branch parsing instead of skipping
Ardour3_step_no_skip(plugins, processor) ==
    IF processor.type = "lv2" THEN Append(plugins, Ardour3_parse_lv2(processor))
    ELSE Append(plugins, Ardour3_parse_ladspa(processor))

\* lines 149-155: one iteration of the loop
Ardour3_step(plugins, processor) ==
    LET type == processor.type
    IN IF type = "ladspa" THEN Append(plugins, Ardour3_parse_ladspa(processor))
       ELSE IF type = "lv2" THEN Append(plugins, Ardour3_parse_lv2(processor))
       ELSE plugins

\* lines 147-155: the loop over route.find_all('Processor')
RECURSIVE Ardour3_scan(_, _)
Ardour3_scan(processors, plugins) ==
    IF processors = <<>> THEN plugins
    ELSE Ardour3_scan(Tail(processors), Ardour3_step(plugins, Head(processors)))

Ardour3_parse_route(soup, route) ==
    LET nchannels  == route.input_ports
        samplerate == int_of_str(soup.sample_rate)
        name       == route.name
    IN Value(Track(Ardour3_scan(route.units, <<>>), nchannels, samplerate, Some(name)))

\* soup.Session['version'].startswith('2')
is_ardour2(soup) == soup.version # <<>> /\ Head(soup.version) = "2"

parse_route(soup, route) ==
    IF is_ardour2(soup) THEN Ardour2_parse_route(soup, route)
    ELSE Ardour3_parse_route(soup, route)

\* Ardour2Session.__init__ / Ardour3Session.__init__: the tracks of all
\* routes, or the exception of the first route that raises
RECURSIVE parse_routes(_, _, _)
parse_routes(soup, routes, tracks) ==
    IF routes = <<>> THEN Value(tracks)
    ELSE LET r == parse_route(soup, Head(routes))
         IN IF r.raised # None THEN Raise(r.raised[1])
            ELSE parse_routes(soup, Tail(routes), Append(tracks, r.value))

ArdourSession(soup) == parse_routes(soup, soup.routes, <<>>)

\* JackRack.parse_ladspa
JackRack_parse_ladspa(plugin) ==
    LadspaPlugin(int_of_str(plugin.id), plugin.controlrows, plugin.enabled = "true", None)

\* JackRack.__init__
JackRack(soup) ==
    Track([k \in 1..Len(soup.rack.plugins) |-> JackRack_parse_ladspa(soup.rack.plugins[k])],
          int_of_str(soup.rack.channels), int_of_str(soup.rack.samplerate), None)

---------------------------------------------------------------------------
(* Top-level flow: the pure parts *)

\* bool(s) of a string that may be None
truthy(o) == o # None /\ o[1] # ""

\* line 308: bool(args.chain_setup_params)
chain_setup_of(params) == params # None /\ params[1] # <<>>

\* lines 309-310
client_name_of(params) ==
    IF chain_setup_of(params) /\ params[1][1] # None THEN params[1][1][1] ELSE "ecasound"

\* normalize without lines 305-307
normalize_keep_flags(a) ==
    [chain_setup_params |-> a.chain_setup_params,
     single_line        |-> a.single_line,
     no_description     |-> a.no_description,
     include_disabled   |-> a.include_disabled,
     track_name         |-> a.track_name,
     include_indices    |-> a.include_indices,
     exclude_indices    |-> a.exclude_indices,
     chain_setup        |-> chain_setup_of(a.chain_setup_params),
     client_name        |-> client_name_of(a.chain_setup_params)]

\* lines 305-310: the namespace the formatter is built from
normalize(a) ==
    [chain_setup_params |-> a.chain_setup_params,
     single_line        |-> a.single_line,
     no_description     |-> IF a.single_line THEN TRUE ELSE a.no_description,
     include_disabled   |-> IF a.single_line THEN FALSE ELSE a.include_disabled,
     track_name         |-> a.track_name,
     include_indices    |-> a.include_indices,
     exclude_indices    |-> a.exclude_indices,
     chain_setup        |-> chain_setup_of(a.chain_setup_params),
     client_name        |-> client_name_of(a.chain_setup_params)]

\* lines 325-332: <<input_format, single_track>>, or None when unrecognized
sniff(soup, a) ==
    IF soup.root = "Session" THEN Some(<<"ardour", truthy(a.track_name)>>)
    ELSE IF soup.root = "jackrack" THEN Some(<<"jackrack", TRUE>>)
    ELSE None

\* check_arguments without the check of lines 337-338
check_arguments_no_exclusion(a, is_single_track) ==
    IF a.chain_setup /\ ~is_single_track
    THEN Some("error: ecasound chain setup can only be generated for a single track")
    ELSE IF (a.include_indices # <<>> \/ a.exclude_indices # <<>>) /\ ~is_single_track
    THEN Some("error: can't specify plugin indices when exporting whole session")
    ELSE None

\* lines 335-340: the message of the first check that fails, or None
check_arguments(a, is_single_track) ==
    IF a.chain_setup /\ ~is_single_track
    THEN Some("error: ecasound chain setup can only be generated for a single track")
    ELSE IF a.include_indices # <<>> /\ a.exclude_indices # <<>>
    THEN Some("error: can't specify plugin inclusion and exclusion at the same time")
    ELSE IF (a.include_indices # <<>> \/ a.exclude_indices # <<>>) /\ ~is_single_track
    THEN Some("error: can't specify plugin indices when exporting whole session")
    ELSE None

\* first_named taking the last track of that name
first_named_last(tracks, name) ==
    LET hits == {k \in 1..Len(tracks) : tracks[k].name = Some(name)}
    IN IF hits = {} THEN None
       ELSE Some(tracks[CHOOSE k \in hits : \A j \in hits : k >= j])

\* line 350: next(t for t in session.tracks if t.name == args.track_name)
first_named(tracks, name) ==
    LET hits == {k \in 1..Len(tracks) : tracks[k].name = Some(name)}
    IN IF hits = {} THEN None
       ELSE Some(tracks[CHOOSE k \in hits : \A j \in hits : k <= j])

\* An entry of the log of operations invoked
NoOutcome == Returned(<<>>, <<>>, <<>>, <<>>)
Call(op, self, track, outcome) ==
    [op |-> op, self |-> self, track |-> track, outcome |-> outcome]

\* the format_track calls format_session makes, as log entries
track_calls(self, tracks) ==
    LET rs == session_calls(self, tracks)
    IN [k \in 1..Len(rs) |-> Call("format_track", Some(self), Some(tracks[k]), rs[k])]

---------------------------------------------------------------------------
(* Inputs *)

V10 == <<"1", ".", "0">>
V05 == <<"0", ".", "5">>
V3  == <<"3">>
VNeg == <<"-", "0", ".", "2", "5", "0">>

\* type, Redirect shape ("none": no Redirect child; "noplacement": a
\* Redirect without the placement attribute) and active flag of a unit
UnitShapes ==
    [type : {"ladspa", "lv2"}, redirect : {"PreFader", "PostFader"}, active : {"yes", "no"}]
    \cup [type : {"port"}, redirect : {"PreFader", "PostFader"}, active : {"yes"}]
    \cup [type : {"ladspa", "port"}, redirect : {"none", "noplacement"}, active : {"yes"}]

\* the unit of the given shape at document position k
MakeUnit(shape, k) ==
    LET name == "u" \o ToString(k)
    IN [type      |-> shape.type,
        active    |-> shape.active,
        name      |-> name,
        unique_id |-> IF shape.type = "lv2" THEN <<"u", "r", "n", ":", ToString(k)>>
                      ELSE <<"1", ToString(k)>>,
        values    |-> IF shape.type = "ladspa" THEN <<V10, V05>>
                      ELSE IF shape.type = "lv2" THEN <<V3, VNeg>> ELSE <<>>,
        redirect  |-> IF shape.redirect = "none" THEN None
                      ELSE Some([placement |-> IF shape.redirect = "noplacement" THEN None
                                               ELSE Some(shape.redirect),
                                 active    |-> shape.active,
                                 name      |-> name])]

MakeUnits(shapes) == [k \in 1..Len(shapes) |-> MakeUnit(shapes[k], k)]

Shape(t, r, a) == [type |-> t, redirect |-> r, active |-> a]

MakeRoute(name, stereo, units) ==
    [name             |-> name,
     input_connection |-> IF stereo THEN Some(<<"a", "+", "b">>) ELSE None,
     inputs           |-> IF stereo THEN <<>> ELSE <<"{", "a", "}">>,
     input_ports      |-> IF stereo THEN 2 ELSE 1,
     units            |-> units]

EmptyRack == [channels |-> <<>>, samplerate |-> <<>>, plugins |-> <<>>]

SessionDoc(version, routes) ==
    [root |-> "Session", version |-> version, sample_rate |-> <<"4", "8", "0", "0", "0">>,
     routes |-> routes, rack |-> EmptyRack]

RackDoc(plugins) ==
    [root |-> "jackrack", version |-> <<>>, sample_rate |-> <<>>, routes |-> <<>>,
     rack |-> [channels |-> <<"2">>, samplerate |-> <<"4", "4", "1", "0", "0">>,
               plugins |-> plugins]]

OtherDoc ==
    [root |-> "other", version |-> <<>>, sample_rate |-> <<>>, routes |-> <<>>,
     rack |-> EmptyRack]

Versions == {<<"2", ".", "0", ".", "0">>, <<"3", ".", "0">>}

\* documents of the parser runs: one route holding any units
ParseDocs ==
    {SessionDoc(v, <<MakeRoute("Gtr", Len(shapes) % 2 = 0, MakeUnits(shapes))>>) :
        v \in Versions, shapes \in SeqsUpTo(UnitShapes, MaxUnits)}

\* documents of the whole runs
MainRoutes ==
    {MakeRoute("Gtr", TRUE,
               MakeUnits(<<Shape("ladspa", "PostFader", "yes"), Shape("port", "PreFader", "yes"),
                           Shape("lv2", "PreFader", "no"), Shape("lv2", "PreFader", "yes")>>)),
     MakeRoute("Gtr", FALSE, MakeUnits(<<Shape("lv2", "PreFader", "yes")>>)),
     MakeRoute("Bus", FALSE, MakeUnits(<<Shape("port", "none", "yes")>>))}

RackPlugins ==
    {<<[enabled |-> "true", id |-> <<"3">>, controlrows |-> <<<<"0", ".", "2">>, <<"0", ".", "8">>>>]>>,
     <<[enabled |-> "false", id |-> <<"7">>, controlrows |-> <<V10>>],
       [enabled |-> "true", id |-> <<"0", "9">>, controlrows |-> <<>>]>>}

MainDocs ==
    {SessionDoc(v, routes) : v \in Versions, routes \in SeqsUpTo(MainRoutes, MaxRoutes)}
    \cup {RackDoc(ps) : ps \in RackPlugins}
    \cup {OtherDoc}

\* -c given never, once without a name, once with a name, twice
ChainSetupParams ==
    {None, Some(<<None>>), Some(<<Some("myclient")>>), Some(<<None, Some("myclient")>>)}

TrackNames == {None, Some(""), Some("Gtr"), Some("Nope")}

MainIndexPairs ==
    {<<<<>>, <<>>>>, <<<<0>>, <<>>>>, <<<<1>>, <<0>>>>, <<<<>>, <<3>>>>}

Argv(c, s, n, t, ie, d) ==
    [chain_setup_params |-> c, single_line |-> s, no_description |-> n, track_name |-> t,
     include_indices |-> ie[1], exclude_indices |-> ie[2], include_disabled |-> d]

MainArgvs ==
    {Argv(c, s, n, t, ie, d) :
        c \in ChainSetupParams, s \in BOOLEAN, n \in BOOLEAN, t \in TrackNames,
        ie \in MainIndexPairs, d \in BOOLEAN}

DefaultArgv == Argv(None, FALSE, FALSE, None, <<<<>>, <<>>>>, FALSE)

\* inputs of the formatter runs
PluginPool ==
    {LadspaPlugin(1, <<V10, V05>>, TRUE, Some("A")),
     LV2Plugin("urn:b", <<V3>>, FALSE, Some("B")),
     LadspaPlugin(2, <<VNeg>>, FALSE, None)}

FormatTracks ==
    {Track(ps, 2, 44100, Some("Gtr")) : ps \in SeqsUpTo(PluginPool, MaxPlugins)}

IndexValues == (0 - 1)..MaxPlugins

FormatIndexPairs ==
    {ie \in SeqsUpTo(IndexValues, MaxIndexLen) \X SeqsUpTo(IndexValues, MaxIndexLen) :
        Len(ie[1]) + Len(ie[2]) <= MaxIndexLen}

FormatSelves ==
    {[chain_setup_params |-> None, single_line |-> s, no_description |-> n,
      include_disabled |-> d, track_name |-> None,
      include_indices |-> ie[1], exclude_indices |-> ie[2],
      chain_setup |-> c, client_name |-> IF c THEN "myclient" ELSE "ecasound"] :
        s \in BOOLEAN, n \in BOOLEAN, d \in BOOLEAN, c \in BOOLEAN, ie \in FormatIndexPairs}

---------------------------------------------------------------------------
(* The run of the script *)

Init ==
    /\ pc = "start"
    /\ argv \in MainArgvs
    /\ doc \in MainDocs
    /\ args = None
    /\ input_format = None
    /\ single_track = FALSE
    /\ session = <<>>
    /\ calls = <<>>
    /\ stdout = <<>>
    /\ exit_msg = None
    /\ raised = None

\* lines 305-312
Normalize ==
    /\ pc = "start"
    /\ args' = Some(normalize(argv))
    /\ pc' = "sniff"
    /\ UNCHANGED <<argv, doc, input_format, single_track, session, calls, stdout,
                   exit_msg, raised>>

\* lines 324-332
Sniff ==
    /\ pc = "sniff"
    /\ LET f == sniff(doc, args[1])
       IN IF f = None
          THEN /\ exit_msg' = Some("error: input file format not recognized")
               /\ pc' = "exit"
               /\ UNCHANGED <<input_format, single_track>>
          ELSE /\ input_format' = Some(f[1][1])
               /\ single_track' = f[1][2]
               /\ pc' = "check"
               /\ UNCHANGED exit_msg
    /\ UNCHANGED <<argv, args, doc, session, calls, stdout, raised>>

\* lines 334-340
CheckArguments ==
    /\ pc = "check"
    /\ LET e == check_arguments(args[1], single_track)
       IN /\ exit_msg' = e
          /\ pc' = IF e = None THEN "load" ELSE "exit"
    /\ UNCHANGED <<argv, args, doc, input_format, single_track, session, calls, stdout,
                   raised>>

\* lines 342-344
LoadArdour ==
    /\ pc = "load"
    /\ input_format = Some("ardour")
    /\ LET r == ArdourSession(doc)
       IN /\ calls' = Append(calls, Call(IF is_ardour2(doc) THEN "Ardour2Session"
                                         ELSE "Ardour3Session", None, None, NoOutcome))
          /\ raised' = r.raised
          /\ session' = r.value
          /\ pc' = IF r.raised = None THEN "output" ELSE "raised"
    /\ UNCHANGED <<argv, args, doc, input_format, single_track, stdout, exit_msg>>

\* lines 346-353
OutputTrack ==
    /\ pc = "output"
    /\ input_format = Some("ardour")
    /\ truthy(args[1].track_name)
    /\ LET t == first_named(session, args[1].track_name[1])
       IN IF t = None
          THEN /\ exit_msg' = Some("error: no track named '" \o args[1].track_name[1] \o "'")
               /\ pc' = "exit"
               /\ UNCHANGED <<calls, stdout>>
          ELSE LET r == format_track(args[1], t[1])
               IN /\ calls' = Append(calls, Call("format_track", args, t, r))
                  /\ exit_msg' = r.exit
                  /\ stdout' = IF r.exit = None THEN Append(stdout, r.result) ELSE stdout
                  /\ pc' = IF r.exit = None THEN "done" ELSE "exit"
    /\ UNCHANGED <<argv, args, doc, input_format, single_track, session, raised>>

\* lines 354-356
OutputSession ==
    /\ pc = "output"
    /\ input_format = Some("ardour")
    /\ ~truthy(args[1].track_name)
    /\ LET r == format_session(args[1], session)
       IN /\ calls' = Append(calls, Call("format_session", args, None, r))
                         \o track_calls(args[1], session)
          /\ exit_msg' = r.exit
          /\ stdout' = IF r.exit = None THEN Append(stdout, r.result) ELSE stdout
          /\ pc' = IF r.exit = None THEN "done" ELSE "exit"
    /\ UNCHANGED <<argv, args, doc, input_format, single_track, session, raised>>

\* line 359
LoadJackRack ==
    /\ pc = "load"
    /\ input_format = Some("jackrack")
    /\ calls' = Append(calls, Call("JackRack", None, None, NoOutcome))
    /\ session' = <<JackRack(doc)>>
    /\ pc' = "output"
    /\ UNCHANGED <<argv, args, doc, input_format, single_track, stdout, exit_msg, raised>>

\* line 360
OutputRack ==
    /\ pc = "output"
    /\ input_format = Some("jackrack")
    /\ LET r == format_track(args[1], session[1])
       IN /\ calls' = Append(calls, Call("format_track", args, Some(session[1]), r))
          /\ exit_msg' = r.exit
          /\ stdout' = IF r.exit = None THEN Append(stdout, r.result) ELSE stdout
          /\ pc' = IF r.exit = None THEN "done" ELSE "exit"
    /\ UNCHANGED <<argv, args, doc, input_format, single_track, session, raised>>

Next ==
    \/ Normalize
    \/ Sniff
    \/ CheckArguments
    \/ LoadArdour
    \/ OutputTrack
    \/ OutputSession
    \/ LoadJackRack
    \/ OutputRack

Spec == Init /\ [][Next]_vars

---------------------------------------------------------------------------
(* format_track applied to any track under any options *)

InitFormat ==
    /\ pc = "format_track"
    /\ argv = DefaultArgv
    /\ doc = OtherDoc
    /\ args \in {Some(self) : self \in FormatSelves}
    /\ input_format = None
    /\ single_track = TRUE
    /\ session \in {<<t>> : t \in FormatTracks}
    /\ calls = <<>>
    /\ stdout = <<>>
    /\ exit_msg = None
    /\ raised = None

ApplyFormatTrack ==
    /\ pc = "format_track"
    /\ LET r == format_track(args[1], session[1])
       IN /\ calls' = Append(calls, Call("format_track", args, Some(session[1]), r))
          /\ exit_msg' = r.exit
          /\ pc' = IF r.exit = None THEN "returned" ELSE "exit"
    /\ UNCHANGED <<argv, args, doc, input_format, single_track, session, stdout, raised>>

NextFormat == ApplyFormatTrack

SpecFormat == InitFormat /\ [][NextFormat]_vars

---------------------------------------------------------------------------
(* parse_route applied to any route of either session dialect *)

InitParse ==
    /\ pc = "parse_route"
    /\ argv = DefaultArgv
    /\ doc \in ParseDocs
    /\ args = None
    /\ input_format = Some("ardour")
    /\ single_track = FALSE
    /\ session = <<>>
    /\ calls = <<>>
    /\ stdout = <<>>
    /\ exit_msg = None
    /\ raised = None

ApplyParseRoute ==
    /\ pc = "parse_route"
    /\ LET r == parse_route(doc, doc.routes[1])
       IN /\ calls' = Append(calls, Call("parse_route", None, None, NoOutcome))
          /\ raised' = r.raised
          /\ session' = IF r.raised = None THEN <<r.value>> ELSE <<>>
          /\ pc' = IF r.raised = None THEN "returned" ELSE "raised"
    /\ UNCHANGED <<argv, args, doc, input_format, single_track, stdout, exit_msg>>

NextParse == ApplyParseRoute

SpecParse == InitParse /\ [][NextParse]_vars

---------------------------------------------------------------------------
(* Properties of format_track, checked under SpecFormat *)

FormatCalls == {k \in 1..Len(calls) : calls[k].op = "format_track"}

OutOfRange(i, track) == i < 0 \/ i >= Len(track.plugins)

HasOutOfRange(self, track) ==
    \E i \in Range(self.include_indices) \cup Range(self.exclude_indices) :
        OutOfRange(i, track)

\* C1: format_track terminates the run with the "plugin index ... is out of
\* range" error exactly when some index of the include or the exclude list
\* is negative or not below the number of plugins of the track; otherwise it
\* returns a rendering and the run goes on.
C1_FatalIffIndexOutOfRange ==
    \A k \in FormatCalls :
        LET c == calls[k]
            self == c.self[1]
            track == c.track[1]
        IN /\ (c.outcome.exit # None) <=> HasOutOfRange(self, track)
           /\ c.outcome.exit # None =>
                /\ \E i \in Range(self.include_indices) \cup Range(self.exclude_indices) :
                       /\ OutOfRange(i, track)
                       /\ c.outcome.exit = Some("error: plugin index " \o ToString(i)
                                                 \o " is out of range")
                /\ exit_msg = c.outcome.exit
                /\ pc = "exit"
           /\ c.outcome.exit = None => (pc = "returned" /\ exit_msg = None)

\* a run that format_track terminated although the include list was fine:
\* the offending index is in the exclude list, and both lists are given
C1_Witness ==
    /\ pc = "exit"
    /\ \E k \in FormatCalls :
          LET self == calls[k].self[1]
              track == calls[k].track[1]
          IN /\ self.include_indices # <<>>
             /\ \A i \in Range(self.include_indices) : ~OutOfRange(i, track)
             /\ \E i \in Range(self.exclude_indices) : OutOfRange(i, track)

StrictlyAscending(seq) == \A a, b \in 1..Len(seq) : a < b => seq[a] < seq[b]

\* C2: with all indices in range, the indices considered for rendering are
\* the include list as given (order and duplicates kept) when it is not
\* empty, and otherwise the indices 0..count-1 outside the exclude list, in
\* strictly ascending order.
C2_EffectiveIndices ==
    \A k \in FormatCalls :
        LET c == calls[k]
            self == c.self[1]
            track == c.track[1]
        IN c.outcome.exit = None =>
             IF self.include_indices # <<>>
             THEN c.outcome.indices = self.include_indices
             ELSE /\ StrictlyAscending(c.outcome.indices)
                  /\ Range(c.outcome.indices) =
                       (0..(Len(track.plugins) - 1)) \ Range(self.exclude_indices)

\* a rendering for an include list that is not strictly ascending (a
\* later plugin asked for first, or the same plugin twice)
C2_Witness ==
    \E k \in FormatCalls :
        LET self == calls[k].self[1]
        IN /\ calls[k].outcome.exit = None
           /\ Len(self.include_indices) >= 2
           /\ self.include_indices[1] >= self.include_indices[2]
           /\ Len(calls[k].outcome.plugins) >= 1

\* the text format_plugin is specified to give for plugin p at index i
PluginText(self, i, p) ==
    (IF self.no_description THEN <<>>
     ELSE <<"# ", ToString(i), ": ", (IF p.name = None THEN "" ELSE p.name[1]), "\n">>)
    \o (IF p.enabled THEN <<>> ELSE <<"# ">>)
    \o format_cmdline(p)

\* C3: with empty include and exclude lists, the rendered plugins are, in
\* ascending index order, the enabled plugins of the track, and the disabled
\* ones exactly when include-disabled is set; a rendered disabled plugin has
\* its command fragment prefixed with "# ", an enabled one never.
C3_RendersEnabledAscending ==
    \A k \in FormatCalls :
        LET c == calls[k]
            self == c.self[1]
            track == c.track[1]
            n == Len(track.plugins)
            shown == c.outcome.plugins
        IN (self.include_indices = <<>> /\ self.exclude_indices = <<>>) =>
             /\ c.outcome.exit = None
             /\ StrictlyAscending([j \in 1..Len(shown) |-> shown[j][1]])
             /\ {shown[j][1] : j \in 1..Len(shown)} =
                  {i \in 0..(n - 1) : track.plugins[i + 1].enabled \/ self.include_disabled}
             /\ \A j \in 1..Len(shown) : shown[j][2] = track.plugins[shown[j][1] + 1]
             /\ c.outcome.string =
                  Join(IF self.single_line THEN " " ELSE "\n",
                       [j \in 1..Len(shown) |-> PluginText(self, shown[j][1], shown[j][2])])

\* a rendering without filters, with include-disabled set, of a track that
\* holds an enabled plugin after a disabled one
C3_Witness ==
    \E k \in FormatCalls :
        LET self == calls[k].self[1]
            track == calls[k].track[1]
        IN /\ self.include_indices = <<>> /\ self.exclude_indices = <<>>
           /\ self.include_disabled
           /\ Len(track.plugins) >= 2
           /\ ~track.plugins[1].enabled
           /\ track.plugins[2].enabled
           /\ Len(calls[k].outcome.plugins) = Len(track.plugins)

---------------------------------------------------------------------------
(* Properties of parse_route, checked under SpecParse *)

PluginTypes == {"ladspa", "lv2"}

TheRoute == doc.routes[1]

\* the document position of the unit a plugin was extracted from (the
\* documents of ParseDocs name their units by position)
UnitOf(plugin) ==
    CHOOSE j \in 1..Len(TheRoute.units) : TheRoute.units[j].name = plugin.name[1]

IsPostFader(unit) == unit.redirect # None /\ unit.redirect[1].placement = Some("PostFader")

\* C4: the plugin list of an Ardour 2 route holds each LADSPA/LV2 insert of
\* the route once, the pre-fader ones first and the post-fader ones after
\* them, each group in document order, whatever the interleaving in the
\* document.
C4_PreFaderBeforePostFader ==
    (pc = "returned" /\ is_ardour2(doc)) =>
        LET units == TheRoute.units
            ps == session[1].plugins
            at(k) == UnitOf(ps[k])
        IN /\ Len(ps) = Cardinality({j \in 1..Len(units) : units[j].type \in PluginTypes})
           /\ {at(k) : k \in 1..Len(ps)} = {j \in 1..Len(units) : units[j].type \in PluginTypes}
           /\ \A a, b \in 1..Len(ps) :
                a < b =>
                  /\ IsPostFader(units[at(a)]) => IsPostFader(units[at(b)])
                  /\ IsPostFader(units[at(a)]) = IsPostFader(units[at(b)]) => at(a) < at(b)

\* an Ardour 2 route whose document puts a post-fader plugin before a
\* pre-fader one and that was parsed into three plugins
C4_Witness ==
    /\ pc = "returned"
    /\ is_ardour2(doc)
    /\ Len(session[1].plugins) = 3
    /\ \E i, j \in 1..Len(TheRoute.units) :
          /\ i < j
          /\ TheRoute.units[i].type \in PluginTypes /\ IsPostFader(TheRoute.units[i])
          /\ TheRoute.units[j].type \in PluginTypes /\ ~IsPostFader(TheRoute.units[j])

\* the route without its units of another type than ladspa and lv2
WithoutOtherUnits(route) ==
    [route EXCEPT !.units = SelectSeq(route.units, LAMBDA u : u.type \in PluginTypes)]

HasOtherUnit == \E j \in 1..Len(TheRoute.units) : TheRoute.units[j].type \notin PluginTypes

\* parse_route ended as it ends on the same route without the units of
\* another type: with the same track, or with the same exception
SameAsWithoutOtherUnits ==
    LET r == parse_route(doc, WithoutOtherUnits(TheRoute))
    IN /\ raised = r.raised
       /\ raised = None => session = <<r.value>>

\* a unit of another type whose Redirect element or placement attribute is missing
BrokenOtherUnit ==
    \E j \in 1..Len(TheRoute.units) :
        /\ TheRoute.units[j].type \notin PluginTypes
        /\ (TheRoute.units[j].redirect = None \/ TheRoute.units[j].redirect[1].placement = None)

\* C6 as stated: in both dialects a unit that is neither ladspa nor lv2 is
\* skipped silently whatever else it holds, a missing Redirect or placement
\* included: the route parses as it does without these units.
C6_AsStated ==
    (pc # "parse_route" /\ HasOtherUnit) => SameAsWithoutOtherUnits

\* C6 amended: such a unit is skipped silently in Ardour 3 routes whatever
\* else it holds, and in Ardour 2 routes when it has a Redirect element with
\* a placement attribute; an Ardour 2 route holding such a unit without them
\* makes parse_route raise.
C6_SkippedUnlessPlacementMissing ==
    (pc # "parse_route" /\ HasOtherUnit) =>
        IF is_ardour2(doc) /\ BrokenOtherUnit
        THEN raised # None /\ session = <<>>
        ELSE SameAsWithoutOtherUnits

\* an Ardour 2 route parsed into two plugins around a skipped unit of
\* another type
C6_Witness ==
    /\ pc = "returned"
    /\ is_ardour2(doc)
    /\ Len(TheRoute.units) = 3
    /\ TheRoute.units[1].type \in PluginTypes
    /\ TheRoute.units[2].type \notin PluginTypes
    /\ TheRoute.units[3].type \in PluginTypes
    /\ Len(session[1].plugins) = 2

---------------------------------------------------------------------------
(* Properties of the whole run, checked under Spec *)

ChainSetupRequested == argv.chain_setup_params # None

IndicesRequested == argv.include_indices # <<>> \/ argv.exclude_indices # <<>>

\* the run exports a single track: the track of a JACK Rack file, or the
\* track named on the command line
SingleTrackResolved ==
    doc.root = "jackrack" \/ (argv.track_name # None /\ argv.track_name[1] # "")

InvalidConfiguration ==
    \/ argv.include_indices # <<>> /\ argv.exclude_indices # <<>>
    \/ (ChainSetupRequested \/ IndicesRequested) /\ ~SingleTrackResolved

\* C5: an invalid configuration (include and exclude lists both given, or
\* chain setup or plugin indices requested for a whole-session export) is
\* rejected with a fatal error before any session parser or formatter
\* operation runs; format_session only ever runs with chain setup off and
\* both index lists empty.
C5_InvalidConfigurationRejectedFirst ==
    /\ InvalidConfiguration =>
         /\ calls = <<>>
         /\ stdout = <<>>
         /\ pc \in {"start", "sniff", "check", "exit"}
         /\ pc = "exit" => exit_msg # None
    /\ \A k \in 1..Len(calls) :
         calls[k].op = "format_session" =>
            /\ ~calls[k].self[1].chain_setup
            /\ calls[k].self[1].include_indices = <<>>
            /\ calls[k].self[1].exclude_indices = <<>>

\* a session run that was given both lists, for a named track, and ended
\* with the fatal error
C5_Witness ==
    /\ pc = "exit"
    /\ doc.root = "Session"
    /\ argv.include_indices # <<>> /\ argv.exclude_indices # <<>>
    /\ SingleTrackResolved
    /\ exit_msg = Some("error: can't specify plugin inclusion and exclusion at the same time")

NoToken(text, token) == \A j \in 1..Len(text) : text[j] # token

\* the plugins of the track at the given indices that are enabled
EnabledAt(track, indices) ==
    SelectSeq([j \in 1..Len(indices) |-> track.plugins[indices[j] + 1]],
              LAMBDA p : p.enabled)

\* C7: with single-line layout selected, whatever no-description and
\* include-disabled were given, every formatter call runs with descriptions
\* off and include-disabled off: no description line, no disabled plugin,
\* and the rendered plugins joined by one space.
C7_SingleLineOverridesFlags ==
    argv.single_line =>
        \A k \in 1..Len(calls) :
            calls[k].op \in {"format_track", "format_session"} =>
                LET self == calls[k].self[1]
                    o == calls[k].outcome
                IN /\ self.no_description
                   /\ ~self.include_disabled
                   /\ (calls[k].op = "format_track" /\ o.exit = None) =>
                        LET shown == EnabledAt(calls[k].track[1], o.indices)
                        IN /\ \A j \in 1..Len(o.plugins) : o.plugins[j][2].enabled
                           /\ NoToken(o.string, "\n")
                           /\ NoToken(o.string, "# ")
                           /\ o.string = Join(" ", [j \in 1..Len(shown) |->
                                                       format_cmdline(shown[j])])

\* a single-line run, given include-disabled and descriptions, that printed
\* two plugins of a track holding a disabled one
C7_Witness ==
    /\ pc = "done"
    /\ argv.single_line /\ argv.include_disabled /\ ~argv.no_description
    /\ \E k \in FormatCalls :
          /\ Len(calls[k].outcome.plugins) = 2
          /\ \E j \in 1..Len(calls[k].track[1].plugins) :
                ~calls[k].track[1].plugins[j].enabled

\* C8: single-line implies chain setup: a single-line run renders each
\* track with the chain-setup preamble, also when -c was not given.
C8_SingleLineImpliesChainSetup ==
    argv.single_line =>
        \A k \in FormatCalls :
            calls[k].outcome.exit = None =>
                /\ calls[k].self[1].chain_setup
                /\ calls[k].outcome.result # <<>>
                /\ calls[k].outcome.result[1] = "-f:f32,"

\* the client name the command line asks for: the name of the first -c, or
\* ecasound when that -c has none
RequestedClientName ==
    IF argv.chain_setup_params[1][1] # None THEN argv.chain_setup_params[1][1][1]
    ELSE "ecasound"

\* C9: in chain-setup mode format_track returns the preamble
\* "-f:f32,<channels>,<rate> -G:jack,<client>,notransport -i:jack -o:jack",
\* a blank line, and then the text it returns for the same track and options
\* with chain setup off; the client is the one given, or ecasound.
C9_ChainSetupIsPreamblePlusPlain ==
    \A k \in FormatCalls :
        LET self == calls[k].self[1]
            track == calls[k].track[1]
            plain == format_track([self EXCEPT !.chain_setup = FALSE], track)
        IN (ChainSetupRequested /\ calls[k].outcome.exit = None) =>
             /\ self.chain_setup
             /\ plain.exit = None
             /\ Flat(calls[k].outcome.result) =
                  "-f:f32," \o ToString(track.nchannels) \o "," \o ToString(track.samplerate)
                  \o " -G:jack," \o RequestedClientName
                  \o ",notransport -i:jack -o:jack" \o "\n" \o "\n"
                  \o Flat(plain.result)

\* a chain-setup run with a client name that printed a mono track
C9_Witness ==
    /\ pc = "done"
    /\ argv.chain_setup_params = Some(<<Some("myclient")>>)
    /\ \E k \in FormatCalls :
          /\ calls[k].track[1].nchannels = 1
          /\ Len(calls[k].outcome.plugins) >= 1
          /\ stdout = <<calls[k].outcome.result>>

NamedTracks(name) == {k \in 1..Len(session) : session[k].name = Some(name)}

\* what C10 says of a finished session run asked for the track called name
NamedTrackOutcome(name) ==
    IF NamedTracks(name) = {}
    THEN /\ pc = "exit"
         /\ exit_msg = Some("error: no track named '" \o name \o "'")
         /\ stdout = <<>>
         /\ FormatCalls = {}
    ELSE LET first == CHOOSE k \in NamedTracks(name) : \A j \in NamedTracks(name) : k <= j
         IN /\ Cardinality(FormatCalls) = 1
            /\ \A k \in 1..Len(calls) : calls[k].op # "format_session"
            /\ \A k \in FormatCalls :
                  /\ calls[k].track = Some(session[first])
                  /\ calls[k].outcome = format_track(args[1], session[first])
                  /\ calls[k].outcome.exit = None => (pc = "done" /\ stdout = <<calls[k].outcome.result>>)
                  /\ calls[k].outcome.exit # None => (pc = "exit" /\ stdout = <<>>)

SessionRunFinished ==
    /\ pc \in {"done", "exit"}
    /\ doc.root = "Session"
    /\ ~InvalidConfiguration

\* C10 as stated: on a session with a track name given and a valid
\* configuration, the run ends with the "no track named" error and prints
\* nothing when no track has the name, and otherwise calls format_track
\* once, on the first track of that name, and renders no other track.
C10_AsStated ==
    (SessionRunFinished /\ argv.track_name # None) =>
        NamedTrackOutcome(argv.track_name[1])

\* C10 amended: the same, for a track name that is not the empty string.
C10_NamedTrackLookup ==
    (SessionRunFinished /\ argv.track_name # None /\ argv.track_name[1] # "") =>
        NamedTrackOutcome(argv.track_name[1])

\* a run that printed the first of two tracks of the requested name, which
\* differ in their plugins
C10_Witness ==
    /\ pc = "done"
    /\ argv.track_name = Some("Gtr")
    /\ Cardinality(NamedTracks("Gtr")) = 2
    /\ \E i, j \in NamedTracks("Gtr") : session[i].plugins # session[j].plugins
    /\ Len(stdout) = 1

===========================================================================
